---- MODULE Spec2Model ----
(***************************************************************************)
(* A model of the resilience and alerting code of utils_b_infra:           *)
(*   - retry_with_timeout (generic.py): the wrapper's loop, the worker     *)
(*     thread of each attempt's ThreadPoolExecutor, and the executor's     *)
(*     shutdown on leaving the `with` block;                               *)
(*   - SlackLogger (logging.py): error() and the dedup history, at         *)
(*     statement granularity so that two calling threads interleave.       *)
(*   - SlackLogger construction, clone(), channel and icon resolution and  *)
(*     the calls of the other levels.                                      *)
(* The two parts share no state.  SpecRetry runs one wrapper call;         *)
(* SpecLogger runs ERROR calls one after another as time passes;           *)
(* SpecLoggerMT lets two threads run them concurrently; SpecLevels mixes   *)
(* calls of all levels on one logger; SpecRouting constructs a logger from *)
(* every combination of arguments and makes calls with per-call overrides; *)
(* SpecCloning constructs a logger, clones it and makes ERROR calls on     *)
(* both objects.                                                           *)
(***************************************************************************)
EXTENDS Integers, Sequences, FiniteSets, TLC

(***************************************************************************)
(* Bounds of the model.                                                    *)
(***************************************************************************)
MaxRetries == 3
MaxInitialDelay == 2
MaxBackoff == 2

MaxCalls == 3
MaxConcurrentCalls == 2
MaxTicks == 2
MaxRoutedCalls == 2
MaxClonedCalls == 2
MaxLevelCalls == 3
\* Clock ticks per second: datetime.now() has sub-second resolution.
Resolution == 2

\* timedelta(minutes=2), in clock ticks.
WindowMinutes == 2
Window == WindowMinutes * 60 * Resolution

\* Values a work-unit can return, and exceptions it can raise: instances
\* of Exception that are not a concurrent.futures.TimeoutError (what is not
\* an Exception, such as KeyboardInterrupt, leaves the wrapper at once).
\* NoException is Python's None in last_exception.
Results == {"r1", "r2"}
Exceptions == {"E1", "E2"}
NoException == "None"

VARIABLES
    \* ---- retry_with_timeout: decorator arguments
    retries, initial_delay, backoff,
    \* ---- wrapper locals and position
    pc, attempts, attempts_left, current_delay, last_exception,
    \* ---- one entry per executor.submit: the worker thread of that attempt
    work,
    \* ---- what the caller observes: durations passed to time.sleep, the
    \* ---- except-branch taken per attempt, the value returned or raised
    sleeps, outcomes, retval,
    \* ---- SlackLogger: self._last_messages, logs/<project>.log, the
    \* ---- messages the Slack client was given
    last_messages, logfile, deliveries,
    \* ---- the wall clock (in ticks) and the number of times it advanced
    now, nticks,
    \* ---- whether callers overlap; per calling thread: position in error()
    \* ---- and its locals
    concurrent, tpc, error_text, error_hash, two_minutes_ago, filtered,
    \* ---- per call: its text, the time it read at line 234 and how it
    \* ---- ended; the state of the logger when the running call started
    calls, snap,
    \* ---- the SlackLogger objects (their attributes other than
    \* ---- _last_messages), the environment variable SLACK_LOGGER_EMOJI,
    \* ---- how the last SlackLogger(...) call ended, what the callers do,
    \* ---- and per calling thread the arguments of its call
    loggers, made, env, ctor, scenario, args

retryVars == <<retries, initial_delay, backoff, pc, attempts, attempts_left,
               current_delay, last_exception, work, sleeps, outcomes, retval>>

cfgVars == <<loggers, made, env, ctor, scenario, args>>

logVars == <<last_messages, logfile, deliveries, now, nticks, concurrent, tpc,
             error_text, error_hash, two_minutes_ago, filtered, calls, snap,
             cfgVars>>

vars == <<retryVars, logVars>>

----------------------------------------------------------------------------
(***************************************************************************)
(* SlackLogger: values and the state after __init__                        *)
(***************************************************************************)

\* The threads calling into one logger.
Threads == {1, 2}

\* Exceptions passed to error(), its error_additional_data (NoData is a
\* falsy value such as None) and its header_message.
Excs == {"exc1"}
NoData == "None"
AdditionalData == {NoData, "data1"}
Headers == {"hdr"}

\* Python's None, and truthiness as `x or y` and `if x:` use it.
None == "None"
Truthy(x) == x \notin {None, ""}
Or(x, y) == IF Truthy(x) THEN x ELSE y

\* The SlackLogger objects of the model: one made by SlackLogger(...), one
\* made from it by clone().  NoLogger: the object does not exist.
LoggerIds == {"parent", "clone"}
NoLogger ==
    [project_name |-> None, subprocess |-> None, default_channel_id |-> None,
     info_channel_id |-> None, error_channel_id |-> None, icon_emoji |-> None]
ProjectName == "Proj"

\* class SlackLogLevel: the level's value is its colour.
Levels == {"INFO", "WARNING", "ERROR", "DEBUG"}

LevelValue(level) ==
    CASE level = "INFO" -> "good"
      [] level = "WARNING" -> "warning"
      [] level = "ERROR" -> "danger"
      [] level = "DEBUG" -> "#CCCCCC"

\* SlackLogLevel.prefix
LevelPrefix(level) ==
    IF level = "DEBUG" THEN "*DEBUG*: "
    ELSE IF level = "WARNING" THEN "*WARNING*: "
    ELSE ""

\* class BotIconEmoji: SLACK_LOGGER_EMOJI is the marker "use the
\* environment's value".
TECHNOLOGIST == "BotIconEmoji.TECHNOLOGIST"
ROBOT_FACE == "BotIconEmoji.ROBOT_FACE"
SLACK_LOGGER_EMOJI == "BotIconEmoji.SLACK_LOGGER_EMOJI"
BotIconEmoji == {TECHNOLOGIST, ROBOT_FACE, SLACK_LOGGER_EMOJI}

\* The member's .value; a member is a str and equals that string.
EnumValue(member) ==
    CASE member = TECHNOLOGIST -> ":technologist:"
      [] member = ROBOT_FACE -> ":robot_face:"
      [] member = SLACK_LOGGER_EMOJI -> "SLACK_LOGGER_EMOJI"

StrEq(x, member) == x = member \/ x = EnumValue(member)

\* str.lower() on the project names of the model.
Lower(name) == IF name = "Proj" THEN "proj" ELSE name

\* A text that is absent or empty (error_text=None in _post_to_slack, a key
\* that the attachment does not have).
NoText == <<>>

\* The arguments of a call that overrides nothing, the overrides a call
\* can make, and the ones the callers of the routing scenario make.
NoOverrides == [channel_id |-> None, subprocess |-> None, color |-> None]

Overrides ==
    [channel_id : {None, "", "CX"}, subprocess : {None, "", "sub2"},
     color : {None, "#111111"}]

SomeOverrides ==
    {NoOverrides,
     [channel_id |-> "CX", subprocess |-> "sub2", color |-> "#111111"]}
NoArgs ==
    [self |-> None, level |-> None, message |-> None, exc |-> None,
     handled |-> None, channel_id |-> None, subprocess |-> None,
     color |-> None]

\* Faulty variant: the environment's value, when set, comes before a
\* configured icon.
GetBotEmoji_EnvFirst(provided, env_emoji) ==
    IF Truthy(env_emoji) THEN env_emoji
    ELSE IF StrEq(provided, SLACK_LOGGER_EMOJI) THEN EnumValue(ROBOT_FACE)
    ELSE IF Truthy(provided)
    THEN (IF provided \in BotIconEmoji THEN EnumValue(provided) ELSE provided)
    ELSE EnumValue(TECHNOLOGIST)

\* SlackLogger._get_bot_emoji, with the icon_emoji argument and the value
\* of os.getenv("SLACK_LOGGER_EMOJI").
GetBotEmoji(provided, env_emoji) ==
    IF StrEq(provided, SLACK_LOGGER_EMOJI)
    THEN (IF Truthy(env_emoji) THEN env_emoji ELSE EnumValue(ROBOT_FACE))
    ELSE IF Truthy(provided)
    THEN (IF provided \in BotIconEmoji THEN EnumValue(provided) ELSE provided)
    ELSE Or(env_emoji, EnumValue(TECHNOLOGIST))

\* Faulty variant: only the default channel counts.
NoChannel_DefaultOnly(default, info, error) == ~Truthy(default)

\* SlackLogger.__init__: the ValueError, and past it the attributes of the
\* object.
NoChannel(default, info, error) ==
    ~(Truthy(default) \/ Truthy(info) \/ Truthy(error))

\* Faulty variant: the default channel is the argument as given, with no
\* fallback to the info and error channels.
NewLogger_NoFallback(project, subprocess, default, info, error, icon, env_emoji) ==
    [project_name |-> project,
     subprocess |-> subprocess,
     default_channel_id |-> default,
     info_channel_id |-> info,
     error_channel_id |-> error,
     icon_emoji |-> GetBotEmoji(icon, env_emoji)]

NewLogger(project, subprocess, default, info, error, icon, env_emoji) ==
    [project_name |-> project,
     subprocess |-> subprocess,
     default_channel_id |-> Or(default, Or(info, error)),
     info_channel_id |-> info,
     error_channel_id |-> error,
     icon_emoji |-> GetBotEmoji(icon, env_emoji)]

\* How an object was made, or failed to be: by SlackLogger(...) or by
\* clone(...), with which arguments, and the environment's value at that
\* moment.
NotMade ==
    [op |-> None, subprocess |-> None, default_channel_id |-> None,
     info_channel_id |-> None, error_channel_id |-> None, icon_emoji |-> None,
     env |-> None]

MadeBy(op, subprocess, default, info, error, icon, env_emoji) ==
    [op |-> op, subprocess |-> subprocess, default_channel_id |-> default,
     info_channel_id |-> info, error_channel_id |-> error, icon_emoji |-> icon,
     env |-> env_emoji]

\* The arguments SlackLogger(...) and clone(...) are given.
ChannelArgs(id) == IF id = "D" THEN {None, "", id} ELSE {None, id}
SubprocessArgs == {None, "sub"}
IconArgs == {None, ":custom:", ROBOT_FACE, SLACK_LOGGER_EMOJI}
EnvValues == {None, ":env:"}

CloneArgs ==
    {MadeBy("clone", None, None, None, None, None, None),
     MadeBy("clone", "sub2", None, None, None, None, None),
     MadeBy("clone", None, "D2", "I2", "E2", ":clone:", None)}

\* The logger of the dedup scenarios: SlackLogger("Proj", token,
\* default_channel_id="D").
PlainLogger == NewLogger(ProjectName, None, "D", None, None, None, None)

\* logs/<project>.log does not exist.
NoFile == [date |-> -1, message |-> "absent", trace |-> <<>>]

\* logs/<project>.log exists and is empty.
EmptyFile == [date |-> -1, message |-> "", trace |-> <<>>]

\* A thread that is not inside error().
NoLocals == <<>>
NoSnapshot == <<>>

\* SlackLogger.__init__: self._last_messages = []; no thread is in error().
LoggerAtRest(c) ==
    /\ scenario \in IF c THEN {"dedup"} ELSE {"dedup", "levels"}
    /\ last_messages = [l \in LoggerIds |-> <<>>]
    /\ loggers = [l \in LoggerIds |-> IF l = "parent" THEN PlainLogger ELSE NoLogger]
    /\ made = [l \in LoggerIds |->
                IF l = "parent"
                THEN MadeBy("SlackLogger", None, "D", None, None, None, None)
                ELSE NotMade]
    /\ env = None
    /\ ctor = "ok"
    /\ args = [t \in Threads |-> NoArgs]
    /\ logfile = NoFile
    /\ deliveries = <<>>
    /\ now = 0
    /\ nticks = 0
    /\ concurrent = c
    /\ tpc = [t \in Threads |-> "idle"]
    /\ error_text = [t \in Threads |-> NoLocals]
    /\ error_hash = [t \in Threads |-> NoLocals]
    /\ two_minutes_ago = [t \in Threads |-> 0]
    /\ filtered = [t \in Threads |-> <<>>]
    /\ calls = <<>>
    /\ snap = [t \in Threads |-> NoSnapshot]

----------------------------------------------------------------------------
(***************************************************************************)
(* retry_with_timeout                                                      *)
(***************************************************************************)

\* The number of work-units started, and those still running.
started == Len(work)
Running == {i \in 1..Len(work) : work[i].st = "running"}

\* The wrapper before it is called, with the decorator's arguments r, d, b.
RetryAtRest(r, d, b) ==
    /\ retries = r
    /\ initial_delay = d
    /\ backoff = b
    /\ pc = "call"
    /\ attempts = 0
    /\ attempts_left = 0
    /\ current_delay = 0
    /\ last_exception = NoException
    /\ work = <<>>
    /\ sleeps = <<>>
    /\ outcomes = <<>>
    /\ retval = <<"none">>

InitRetry ==
    /\ \E r \in 0..MaxRetries, d \in 0..MaxInitialDelay, b \in 1..MaxBackoff :
          RetryAtRest(r, d, b)
    /\ LoggerAtRest(FALSE)
    /\ scenario = "dedup"

\* wrapper(*args, **kwargs): the three assignments before the loop.
Call ==
    /\ pc = "call"
    /\ attempts' = 0
    /\ current_delay' = initial_delay
    /\ last_exception' = NoException
    /\ pc' = "loop"
    /\ UNCHANGED <<retries, initial_delay, backoff, attempts_left, work,
                   sleeps, outcomes, retval>>
    /\ UNCHANGED logVars

\* while attempts < retries:
LoopCond == attempts < retries

\* if attempts < retries - 1:  (another attempt follows this one)
MoreAttempts_OffByOne == attempts < retries

MoreAttempts_Early == attempts < retries - 2

MoreAttempts == attempts < retries - 1

\* while attempts < retries: ... attempts_left = retries - attempts - 1
LoopEnter ==
    /\ pc = "loop"
    /\ LoopCond
    /\ attempts_left' = retries - attempts - 1
    /\ pc' = "submit"
    /\ UNCHANGED <<retries, initial_delay, backoff, attempts, current_delay,
                   last_exception, work, sleeps, outcomes, retval>>
    /\ UNCHANGED logVars

\* The while condition is false: fall through to the raise.
LoopExit ==
    /\ pc = "loop"
    /\ ~LoopCond
    /\ pc' = "raise"
    /\ UNCHANGED <<retries, initial_delay, backoff, attempts, attempts_left,
                   current_delay, last_exception, work, sleeps, outcomes, retval>>
    /\ UNCHANGED logVars

\* with ThreadPoolExecutor(max_workers=1) as executor:
\*     future = executor.submit(func, ...)
\* A fresh worker thread starts running the work-unit.
Submit ==
    /\ pc = "submit"
    /\ work' = Append(work, [st |-> "running", val |-> "none"])
    /\ pc' = "wait"
    /\ UNCHANGED <<retries, initial_delay, backoff, attempts, attempts_left,
                   current_delay, last_exception, sleeps, outcomes, retval>>
    /\ UNCHANGED logVars

\* The worker thread: the work-unit returns a value ...
WorkReturn(i, v) ==
    /\ i \in Running
    /\ work' = [work EXCEPT ![i] = [st |-> "returned", val |-> v]]
    /\ UNCHANGED <<retries, initial_delay, backoff, pc, attempts, attempts_left,
                   current_delay, last_exception, sleeps, outcomes, retval>>
    /\ UNCHANGED logVars

\* ... or raises an exception; either may happen before or after the
\* attempt's deadline, or never.
WorkRaise(i, e) ==
    /\ i \in Running
    /\ work' = [work EXCEPT ![i] = [st |-> "raised", val |-> e]]
    /\ UNCHANGED <<retries, initial_delay, backoff, pc, attempts, attempts_left,
                   current_delay, last_exception, sleeps, outcomes, retval>>
    /\ UNCHANGED logVars

\* Faulty variant: the result is stored but the loop is not left.
ResultReturn_NoReturn ==
    /\ pc = "wait"
    /\ work[Len(work)].st = "returned"
    /\ retval' = <<"return", work[Len(work)].val>>
    /\ outcomes' = Append(outcomes, "ok")
    /\ pc' = "shutdown"
    /\ UNCHANGED <<retries, initial_delay, backoff, attempts, attempts_left,
                   current_delay, last_exception, work, sleeps>>
    /\ UNCHANGED logVars

\* return future.result(timeout=timeout): the work-unit returned in time.
\* Leaving the `with` block shuts the executor down; its worker is idle.
ResultReturn ==
    /\ pc = "wait"
    /\ work[Len(work)].st = "returned"
    /\ retval' = <<"return", work[Len(work)].val>>
    /\ outcomes' = Append(outcomes, "ok")
    /\ pc' = "returned"
    /\ UNCHANGED <<retries, initial_delay, backoff, attempts, attempts_left,
                   current_delay, last_exception, work, sleeps>>
    /\ UNCHANGED logVars

\* Faulty variant: a timed-out attempt is fatal: it is not retried.
ResultTimeout_Fatal ==
    /\ pc = "wait"
    /\ work[Len(work)].st = "running"
    /\ outcomes' = Append(outcomes, "timeout")
    /\ pc' = "raise"
    /\ UNCHANGED <<retries, initial_delay, backoff, attempts, attempts_left,
                   current_delay, last_exception, work, sleeps, retval>>
    /\ UNCHANGED logVars

\* except concurrent.futures.TimeoutError: the deadline elapsed with the
\* work-unit still running.  future.cancel() cannot cancel a running future.
ResultTimeout ==
    /\ pc = "wait"
    /\ work[Len(work)].st = "running"
    /\ outcomes' = Append(outcomes, "timeout")
    /\ pc' = "shutdown"
    /\ UNCHANGED <<retries, initial_delay, backoff, attempts, attempts_left,
                   current_delay, last_exception, work, sleeps, retval>>
    /\ UNCHANGED logVars

\* except Exception as e: last_exception = e
ResultRaise ==
    /\ pc = "wait"
    /\ work[Len(work)].st = "raised"
    /\ last_exception' = work[Len(work)].val
    /\ outcomes' = Append(outcomes, "raise")
    /\ pc' = "shutdown"
    /\ UNCHANGED <<retries, initial_delay, backoff, attempts, attempts_left,
                   current_delay, work, sleeps, retval>>
    /\ UNCHANGED logVars

\* Leaving the `with` block: ThreadPoolExecutor.__exit__ calls
\* shutdown(wait=True), which joins the worker thread.
ExecutorExit_NoWait ==
    /\ pc = "shutdown"
    /\ pc' = "after"
    /\ UNCHANGED <<retries, initial_delay, backoff, attempts, attempts_left,
                   current_delay, last_exception, work, sleeps, outcomes, retval>>
    /\ UNCHANGED logVars

ExecutorExit ==
    /\ pc = "shutdown"
    /\ work[Len(work)].st # "running"
    /\ pc' = "after"
    /\ UNCHANGED <<retries, initial_delay, backoff, attempts, attempts_left,
                   current_delay, last_exception, work, sleeps, outcomes, retval>>
    /\ UNCHANGED logVars

\* if attempts < retries - 1: time.sleep(current_delay)
\*                            current_delay *= backoff ... attempts += 1
Sleep ==
    /\ pc = "after"
    /\ MoreAttempts
    /\ sleeps' = Append(sleeps, current_delay)
    /\ current_delay' = current_delay * backoff
    /\ attempts' = attempts + 1
    /\ pc' = "loop"
    /\ UNCHANGED <<retries, initial_delay, backoff, attempts_left,
                   last_exception, work, outcomes, retval>>
    /\ UNCHANGED logVars

\* else: break
Break ==
    /\ pc = "after"
    /\ ~MoreAttempts
    /\ pc' = "raise"
    /\ UNCHANGED <<retries, initial_delay, backoff, attempts, attempts_left,
                   current_delay, last_exception, work, sleeps, outcomes, retval>>
    /\ UNCHANGED logVars

\* raise Exception(f"... failed after {retries} retries. Last exception:
\*                 {last_exception}")
RaiseExhausted ==
    /\ pc = "raise"
    /\ retval' = <<"raise", retries, last_exception>>
    /\ pc' = "raised"
    /\ UNCHANGED <<retries, initial_delay, backoff, attempts, attempts_left,
                   current_delay, last_exception, work, sleeps, outcomes>>
    /\ UNCHANGED logVars

\* The steps of the calling thread, and of the worker threads.
WrapperStep ==
    \/ Call
    \/ LoopEnter
    \/ LoopExit
    \/ Submit
    \/ ResultReturn
    \/ ResultTimeout
    \/ ResultRaise
    \/ ExecutorExit
    \/ Sleep
    \/ Break
    \/ RaiseExhausted

WorkerStep ==
    \/ \E i \in 1..Len(work), v \in Results : WorkReturn(i, v)
    \/ \E i \in 1..Len(work), e \in Exceptions : WorkRaise(i, e)

NextRetry == WrapperStep \/ WorkerStep

SpecRetry == InitRetry /\ [][NextRetry]_vars

----------------------------------------------------------------------------
(***************************************************************************)
(* Claims about retry_with_timeout, checked under SpecRetry.               *)
(***************************************************************************)

RECURSIVE Pow(_, _)
Pow(b, n) == IF n = 0 THEN 1 ELSE b * Pow(b, n - 1)

\* The delays the documentation promises before attempts 2..n+1.
DelaySeq(n) == [i \in 1..n |-> initial_delay * Pow(backoff, i - 1)]

Terminal == pc \in {"returned", "raised"}
AllFailed == \A i \in 1..Len(outcomes) : outcomes[i] # "ok"
LastOutcome == outcomes[Len(outcomes)]

\* The index of the first successful attempt, 0 when there is none.
FirstOk ==
    IF AllFailed THEN 0
    ELSE CHOOSE k \in 1..Len(outcomes) :
            /\ outcomes[k] = "ok"
            /\ \A j \in 1..(k - 1) : outcomes[j] # "ok"

\* C1: with retries = r >= 1 and every attempt failing (raised or timed
\* out), the work-unit is started exactly r times and the call then raises
\* the exhaustion failure: it never returns normally, never starts an
\* (r+1)-th attempt, and until it has raised it is either able to take its
\* next step or waiting for the work-unit it started.
C1_ExactlyRAttempts ==
    (retries >= 1 /\ AllFailed) =>
        /\ started <= retries
        /\ pc # "returned"
        /\ pc = "raised" =>
              /\ started = retries
              /\ Len(outcomes) = retries
              /\ retval[1] = "raise"
        /\ pc # "raised" => (ENABLED WrapperStep \/ Running # {})

C1_Witness ==
    /\ pc = "raised"
    /\ retries = MaxRetries
    /\ started = MaxRetries
    /\ \E i, j \in 1..Len(outcomes) :
          outcomes[i] = "timeout" /\ outcomes[j] = "raise"

\* C4: attempts of one call never overlap: at most one work-unit of the
\* call is running at any moment, also after an attempt timed out, and a
\* new attempt is submitted only when no earlier work-unit is running.
C4_NoOverlap ==
    /\ Cardinality(Running) <= 1
    /\ pc = "submit" => Running = {}
    /\ \A i \in 1..(Len(work) - 1) : work[i].st # "running"

C4_Witness ==
    /\ started = 2
    /\ outcomes[1] = "timeout"
    /\ work[2].st = "running"

\* C5 (as claimed): once an attempt's deadline has elapsed the retrier
\* goes on without waiting for the work-unit: in every state in which the
\* last attempt has timed out and the call has not ended, the calling
\* thread can take its next step.
C5_ProceedsWithoutWaiting ==
    (~Terminal /\ Len(outcomes) = started /\ started >= 1
        /\ LastOutcome = "timeout")
    => ENABLED WrapperStep

\* C6: a success within the deadline on attempt k <= retries returns that
\* attempt's result; no further attempt is started and no delay follows it
\* (k attempts, k-1 delays, and the call takes no further step).
C6_SuccessReturns ==
    ~AllFailed =>
        /\ pc = "returned"
        /\ started = Len(outcomes)
        /\ started <= retries
        /\ FirstOk = started
        /\ work[started].st = "returned"
        /\ retval = <<"return", work[started].val>>
        /\ Len(sleeps) = started - 1
        /\ ~ENABLED WrapperStep

C6_Witness ==
    /\ pc = "returned"
    /\ started = 2
    /\ retries = MaxRetries
    /\ retval = <<"return", "r2">>

\* C7 (as claimed): the exhaustion failure wraps the outcome of the LAST
\* attempt: its exception if it raised, the no-error marker if it timed out.
C7_WrapsLastAttempt ==
    (pc = "raised" /\ retries >= 1) =>
        retval[3] = IF LastOutcome = "raise" THEN work[started].val
                    ELSE NoException

\* C8: with every attempt failing the retrier sleeps r-1 times, each sleep
\* between two consecutive attempts and none after the last, and the i-th
\* sleep lasts initial_delay * backoff^(i-1).
C8_DelaySequence ==
    (retries >= 1 /\ AllFailed) =>
        /\ sleeps = DelaySeq(Len(sleeps))
        /\ Len(sleeps) <= retries - 1
        /\ Len(sleeps) <= Len(outcomes)
        /\ started <= Len(sleeps) + 1
        /\ pc = "raised" => Len(sleeps) = retries - 1

C8_Witness ==
    /\ pc = "raised"
    /\ retries = MaxRetries
    /\ initial_delay = 1
    /\ backoff = 2
    /\ sleeps = <<1, 2>>

\* C9: the bookkeeping of a finished call is a function of the outcome
\* sequence with "raise" and "timeout" identified: the number of attempts,
\* the delays and whether the call ends in exhaustion depend only on where
\* the first success is, so exchanging a raised attempt for a timed-out one
\* changes none of them.
C9_TimeoutLikeRaise ==
    (Terminal /\ retries >= 1) =>
        LET n == IF FirstOk = 0 THEN retries ELSE FirstOk
        IN  /\ started = n
            /\ Len(outcomes) = n
            /\ sleeps = DelaySeq(n - 1)
            /\ (pc = "raised") <=> (FirstOk = 0)

C9_Witness ==
    /\ pc = "raised"
    /\ retries = 2
    /\ outcomes = <<"timeout", "raise">>

----------------------------------------------------------------------------
(***************************************************************************)
(* SlackLogger.error and the dedup history                                 *)
(***************************************************************************)

\* error_text = ''.join(traceback.format_exception(...)), plus the
\* additional data when it is truthy.
FormatError(exc, data) ==
    IF data # NoData THEN <<exc, "Additional data:", data>> ELSE <<exc>>

\* len(text) of the texts of the model: the traceback of exc1 is 5000
\* characters long, "\n\nAdditional data:\n" 19 and data1 4000.
Chars(part) ==
    CASE part = "exc1" -> 5000
      [] part = "Additional data:" -> 19
      [] part = "data1" -> 4000

RECURSIVE TextLength(_)
TextLength(text) ==
    IF text = <<>> THEN 0 ELSE Chars(Head(text)) + TextLength(Tail(text))

\* error_text[-8000:] if len(error_text) > 8000 else error_text: a longer
\* text loses its beginning.
MaxSlackText == 8000
Last8000(text) ==
    IF TextLength(text) > MaxSlackText THEN <<"last 8000 of">> \o text ELSE text

\* hashlib.md5(error_text.encode()).hexdigest(): no two texts of the model
\* collide.
HashError(text) == <<"md5", text>>

\* datetime.now().replace(microsecond=0): the clock cut to the whole second.
TruncateMicroseconds(t) == (t \div Resolution) * Resolution

\* Faulty variant: nothing is removed.
KeepRecent_KeepsAll(history, ago) == history

\* [item for item in self._last_messages if item['date'] > two_minutes_ago]
KeepRecent(history, ago) == SelectSeq(history, LAMBDA item : item.date > ago)

\* error_hash in [item['message_hash'] for item in self._last_messages]
InHistory(history, h) == \E i \in 1..Len(history) : history[i].message_hash = h

\* The calls made so far that have ended.
Idle == \A t \in Threads : tpc[t] = "idle"

\* Faulty variant: the channel configured for the level comes before the
\* per-call channel.
ResolveChannel_ConfigFirst(cfg, provided_channel_id, is_error) ==
    IF is_error
    THEN Or(cfg.error_channel_id, Or(provided_channel_id, cfg.default_channel_id))
    ELSE Or(cfg.info_channel_id, Or(provided_channel_id, cfg.default_channel_id))

\* SlackLogger._resolve_channel
ResolveChannel(cfg, provided_channel_id, is_error) ==
    IF is_error
    THEN Or(provided_channel_id, Or(cfg.error_channel_id, cfg.default_channel_id))
    ELSE Or(provided_channel_id, Or(cfg.info_channel_id, cfg.default_channel_id))

\* SlackLogger._post_to_slack: what chat_postMessage is given.  The message
\* is the level's prefix and the caller's text, behind "[subprocess]: "
\* when there is a subprocess name.
PostedMessage(cfg, level, message, subprocess) ==
    IF Truthy(Or(subprocess, cfg.subprocess))
    THEN <<"[", Or(subprocess, cfg.subprocess), "]: ", LevelPrefix(level), message>>
    ELSE <<LevelPrefix(level), message>>

Payload(cfg, level, message, text, o) ==
    LET msg == PostedMessage(cfg, level, message, o.subprocess)
        isErr == level = "ERROR" /\ text # NoText
    IN  [channel |-> ResolveChannel(cfg, o.channel_id, level = "ERROR"),
         text |-> IF isErr THEN text ELSE msg,
         pretext |-> IF isErr THEN msg ELSE NoText,
         fallback |-> msg,
         title |-> IF isErr THEN "Error traceback" ELSE None,
         color |-> Or(o.color, LevelValue(level)),
         username |-> <<Lower(cfg.project_name), "-logger">>,
         icon_emoji |-> cfg.icon_emoji]

\* The wall clock advances, by a tick, by just under the window or by the
\* window.
ClockJumps == {1, Window - 1, Window}

\* What the callers do.  "dedup": ERROR calls on one logger as time passes.
\* "levels": calls of every level on one logger, the ERROR calls made while
\* handling the exception or not.  "routing": a logger is constructed and
\* calls of any level are made on it, with and without per-call overrides.
\* "cloning": a logger is constructed and cloned and ERROR calls are made on
\* the two.
CallBound ==
    CASE scenario = "dedup" -> MaxCalls
      [] scenario = "levels" -> MaxLevelCalls
      [] scenario = "routing" -> MaxRoutedCalls
      [] scenario = "cloning" -> MaxClonedCalls

\* The callers: one call after another from one thread, or up to
\* MaxConcurrentCalls calls from threads that do not wait for each other.
CanCall(t) ==
    /\ tpc[t] = "idle"
    /\ IF concurrent THEN Len(calls) < MaxConcurrentCalls
                     ELSE Len(calls) < CallBound /\ t = 1

\* Only the callers of the routing scenario override the channel, the
\* subprocess and the colour; those of the routing and cloning scenarios
\* pass no error_additional_data.
CallerOverrides == IF scenario = "routing" THEN SomeOverrides ELSE {NoOverrides}
CallerData == IF scenario \in {"routing", "cloning"} THEN {NoData} ELSE AdditionalData

\* What sys.exc_info() holds during the call: the callers of the levels
\* scenario call error(exc) from the except block that caught exc or from
\* outside any except block, the others from the except block.
CallerHandling(exc) ==
    IF scenario = "levels" THEN {exc, NoException} ELSE {exc}

\* A thread whose next statement reads the clock.
ReadsClockNext(t) == tpc[t] \in {"append", "write", "post"} \/ CanCall(t)

\* Between two readings of the clock the wall clock advances; steps that do
\* not read it are not told apart by when it advanced.
Tick(d) ==
    /\ scenario = "dedup"
    /\ nticks < MaxTicks
    /\ \E t \in Threads : ReadsClockNext(t)
    /\ now' = now + d
    /\ nticks' = nticks + 1
    /\ UNCHANGED <<last_messages, logfile, deliveries, concurrent, tpc,
                   error_text, error_hash, two_minutes_ago, filtered, calls, snap>>
    /\ UNCHANGED cfgVars
    /\ UNCHANGED retryVars

\* traceback.print_exception(*sys.exc_info(), file=file): the trace of the
\* exception being handled, "NoneType: None" when there is none.
PrintException(handled) ==
    IF handled = NoException THEN <<"NoneType: None">> ELSE <<handled>>

\* error(exc, header_message, error_additional_data): lines 229-234, up to
\* two_minutes_ago = datetime.now() - timedelta(minutes=2).
ErrorStart(t, l, exc, handled, header, data, o) ==
    /\ CanCall(t)
    /\ loggers[l] # NoLogger
    /\ args' = [args EXCEPT ![t] = [self |-> l, level |-> "ERROR",
                                    message |-> header, exc |-> exc,
                                    handled |-> handled,
                                    channel_id |-> o.channel_id,
                                    subprocess |-> o.subprocess,
                                    color |-> o.color]]
    /\ error_text' = [error_text EXCEPT ![t] = FormatError(exc, data)]
    /\ error_hash' = [error_hash EXCEPT ![t] = HashError(FormatError(exc, data))]
    /\ two_minutes_ago' = [two_minutes_ago EXCEPT ![t] = now - Window]
    /\ calls' = Append(calls, [thread |-> t, logger |-> l, level |-> "ERROR",
                               exc |-> exc, header |-> header,
                               text |-> FormatError(exc, data),
                               at |-> now, outcome |-> "running",
                               recorded |-> -1, posted |-> -1])
    /\ snap' = [snap EXCEPT ![t] = [deliveries |-> deliveries, logfile |-> logfile,
                                    last_messages |-> last_messages[l]]]
    /\ tpc' = [tpc EXCEPT ![t] = "filter"]
    /\ UNCHANGED <<last_messages, logfile, deliveries, now, nticks, concurrent,
                   filtered>>
    /\ UNCHANGED <<loggers, made, env, ctor, scenario>>
    /\ UNCHANGED retryVars

\* The list comprehension of line 235 reads self._last_messages ...
FilterRead(t) ==
    /\ tpc[t] = "filter"
    /\ filtered' = [filtered EXCEPT ![t] = KeepRecent(last_messages[args[t].self], two_minutes_ago[t])]
    /\ tpc' = [tpc EXCEPT ![t] = "assign"]
    /\ UNCHANGED <<last_messages, logfile, deliveries, now, nticks, concurrent,
                   error_text, error_hash, two_minutes_ago, calls, snap>>
    /\ UNCHANGED cfgVars
    /\ UNCHANGED retryVars

\* ... and the result is stored in self._last_messages.
FilterAssign(t) ==
    /\ tpc[t] = "assign"
    /\ last_messages' = [last_messages EXCEPT ![args[t].self] = filtered[t]]
    /\ filtered' = [filtered EXCEPT ![t] = <<>>]
    /\ tpc' = [tpc EXCEPT ![t] = "check"]
    /\ UNCHANGED <<logfile, deliveries, now, nticks, concurrent,
                   error_text, error_hash, two_minutes_ago, calls, snap>>
    /\ UNCHANGED cfgVars
    /\ UNCHANGED retryVars

\* The running call of thread t ends with outcome o; its locals die.
EndCall(t, o) ==
    /\ calls' = [i \in 1..Len(calls) |->
                    IF calls[i].thread = t /\ calls[i].outcome = "running"
                    THEN [calls[i] EXCEPT !.outcome = o,
                                          !.posted = IF o = "sent" THEN now ELSE -1]
                    ELSE calls[i]]
    /\ snap' = [snap EXCEPT ![t] = NoSnapshot]
    /\ error_text' = [error_text EXCEPT ![t] = NoLocals]
    /\ error_hash' = [error_hash EXCEPT ![t] = NoLocals]
    /\ two_minutes_ago' = [two_minutes_ago EXCEPT ![t] = 0]
    /\ tpc' = [tpc EXCEPT ![t] = "idle"]
    /\ args' = [args EXCEPT ![t] = NoArgs]
    /\ UNCHANGED <<loggers, made, env, ctor, scenario>>

\* Faulty variant: the duplicate check comes after the log file is written.
Suppress_WritesLog(t) ==
    /\ tpc[t] = "check"
    /\ InHistory(last_messages[args[t].self], error_hash[t])
    /\ logfile' = [date |-> TruncateMicroseconds(now),
                   message |-> args[t].message,
                   trace |-> PrintException(args[t].handled)]
    /\ EndCall(t, "suppressed")
    /\ UNCHANGED <<last_messages, deliveries, now, nticks, concurrent, filtered>>
    /\ UNCHANGED retryVars

\* Faulty variant: a suppressed call restamps the entries that matched, so
\* the window starts again at every repeat.
Suppress_RefreshesEntry(t) ==
    /\ tpc[t] = "check"
    /\ InHistory(last_messages[args[t].self], error_hash[t])
    /\ last_messages' = [last_messages EXCEPT ![args[t].self] =
            [k \in 1..Len(@) |->
                IF @[k].message_hash = error_hash[t]
                THEN [@[k] EXCEPT !.date = TruncateMicroseconds(now)]
                ELSE @[k]]]
    /\ EndCall(t, "suppressed")
    /\ UNCHANGED <<logfile, deliveries, now, nticks, concurrent, filtered>>
    /\ UNCHANGED retryVars

\* if error_hash in [...]: return
Suppress(t) ==
    /\ tpc[t] = "check"
    /\ InHistory(last_messages[args[t].self], error_hash[t])
    /\ EndCall(t, "suppressed")
    /\ UNCHANGED <<last_messages, logfile, deliveries, now, nticks, concurrent,
                   filtered>>
    /\ UNCHANGED retryVars

\* Otherwise error() goes on to _write_error_log_and_post.
NotSuppressed(t) ==
    /\ tpc[t] = "check"
    /\ ~InHistory(last_messages[args[t].self], error_hash[t])
    /\ tpc' = [tpc EXCEPT ![t] = "append"]
    /\ UNCHANGED <<last_messages, logfile, deliveries, now, nticks, concurrent,
                   error_text, error_hash, two_minutes_ago, filtered, calls, snap>>
    /\ UNCHANGED cfgVars
    /\ UNCHANGED retryVars

\* self._last_messages.append({'date': ..., 'message_hash': ...})
\* Faulty variant: the fingerprint is taken of the text as it is posted, cut
\* to its last 8000 characters.
AppendEntry_HashesPosted(t) ==
    /\ tpc[t] = "append"
    /\ last_messages' = [last_messages EXCEPT ![args[t].self] =
            Append(@, [date |-> TruncateMicroseconds(now),
                       message_hash |-> HashError(Last8000(error_text[t]))])]
    /\ calls' = [i \in 1..Len(calls) |->
                    IF calls[i].thread = t /\ calls[i].outcome = "running"
                    THEN [calls[i] EXCEPT !.recorded = now]
                    ELSE calls[i]]
    /\ tpc' = [tpc EXCEPT ![t] = "write"]
    /\ UNCHANGED <<logfile, deliveries, now, nticks, concurrent,
                   error_text, error_hash, two_minutes_ago, filtered, snap>>
    /\ UNCHANGED cfgVars
    /\ UNCHANGED retryVars

AppendEntry(t) ==
    /\ tpc[t] = "append"
    /\ last_messages' = [last_messages EXCEPT ![args[t].self] =
            Append(@, [date |-> TruncateMicroseconds(now),
                       message_hash |-> HashError(error_text[t])])]
    /\ calls' = [i \in 1..Len(calls) |->
                    IF calls[i].thread = t /\ calls[i].outcome = "running"
                    THEN [calls[i] EXCEPT !.recorded = now]
                    ELSE calls[i]]
    /\ tpc' = [tpc EXCEPT ![t] = "write"]
    /\ UNCHANGED <<logfile, deliveries, now, nticks, concurrent,
                   error_text, error_hash, two_minutes_ago, filtered, snap>>
    /\ UNCHANGED cfgVars
    /\ UNCHANGED retryVars

\* os.makedirs("logs"); open(..., "w"); file.write(...);
\* traceback.print_exception(...): the file is overwritten with this call's
\* record.
WriteLog(t) ==
    /\ tpc[t] = "write"
    /\ logfile' = [date |-> TruncateMicroseconds(now),
                   message |-> args[t].message,
                   trace |-> PrintException(args[t].handled)]
    /\ tpc' = [tpc EXCEPT ![t] = "post"]
    /\ UNCHANGED <<last_messages, deliveries, now, nticks, concurrent,
                   error_text, error_hash, two_minutes_ago, filtered, calls, snap>>
    /\ UNCHANGED cfgVars
    /\ UNCHANGED retryVars

\* ... or makedirs or open raises OSError and the file is as it was, or a
\* write raises after open(..., "w") has emptied the file; the exception
\* leaves error().
WriteLogFails(t, opened) ==
    /\ tpc[t] = "write"
    /\ logfile' = IF opened THEN EmptyFile ELSE logfile
    /\ EndCall(t, "write_failed")
    /\ UNCHANGED <<last_messages, deliveries, now, nticks, concurrent, filtered>>
    /\ UNCHANGED retryVars

\* self._post_to_slack(...): chat_postMessage is given the message ...
PostToSlack(t) ==
    /\ tpc[t] = "post"
    /\ deliveries' = Append(deliveries,
            [logger |-> args[t].self, level |-> "ERROR", given |-> args[t],
             post |-> Payload(loggers[args[t].self], "ERROR", args[t].message,
                              Last8000(error_text[t]), args[t])])
    /\ EndCall(t, "sent")
    /\ UNCHANGED <<last_messages, logfile, now, nticks, concurrent, filtered>>
    /\ UNCHANGED retryVars

\* ... or chat_postMessage raises, which leaves error().
PostToSlackFails(t) ==
    /\ tpc[t] = "post"
    /\ EndCall(t, "post_failed")
    /\ UNCHANGED <<last_messages, logfile, deliveries, now, nticks, concurrent,
                   filtered>>
    /\ UNCHANGED retryVars

ErrorStep(t) ==
    \/ \E l \in LoggerIds, exc \in Excs, header \in Headers,
          data \in CallerData :
            \E o \in CallerOverrides, handled \in CallerHandling(exc) :
                ErrorStart(t, l, exc, handled, header, data, o)
    \/ FilterRead(t)
    \/ FilterAssign(t)
    \/ Suppress(t)
    \/ NotSuppressed(t)
    \/ AppendEntry(t)
    \/ WriteLog(t)
    \/ \E opened \in BOOLEAN : WriteLogFails(t, opened)
    \/ PostToSlack(t)
    \/ PostToSlackFails(t)

NextLogger ==
    \/ \E t \in Threads : ErrorStep(t)
    \/ \E d \in ClockJumps : Tick(d)

\* SlackLogger(project_name, slack_token, subprocess, default_channel_id,
\* info_channel_id, error_channel_id, icon_emoji): raises ValueError and
\* makes no object, or makes the object.
Construct(subprocess, default, info, error, icon) ==
    /\ scenario \in {"routing", "cloning"}
    /\ ctor = "none"
    /\ made' = [made EXCEPT !["parent"] =
            MadeBy("SlackLogger", subprocess, default, info, error, icon, env)]
    /\ IF NoChannel(default, info, error)
       THEN /\ ctor' = "ValueError"
            /\ UNCHANGED <<loggers, last_messages>>
       ELSE /\ ctor' = "ok"
            /\ loggers' = [loggers EXCEPT !["parent"] =
                    NewLogger(ProjectName, subprocess, default, info, error,
                              icon, env)]
            /\ last_messages' = [last_messages EXCEPT !["parent"] = <<>>]
    /\ UNCHANGED <<logfile, deliveries, now, nticks, concurrent, tpc,
                   error_text, error_hash, two_minutes_ago, filtered, calls, snap>>
    /\ UNCHANGED <<env, scenario, args>>
    /\ UNCHANGED retryVars

\* Faulty variant: the clone's history starts as a copy of the parent's.
Clone_CopiesHistory(a) ==
    /\ scenario = "cloning"
    /\ loggers["parent"] # NoLogger
    /\ loggers["clone"] = NoLogger
    /\ Idle
    /\ loggers' = [loggers EXCEPT !["clone"] =
            NewLogger(loggers["parent"].project_name,
                      Or(a.subprocess, loggers["parent"].subprocess),
                      Or(a.default_channel_id, loggers["parent"].default_channel_id),
                      Or(a.info_channel_id, loggers["parent"].info_channel_id),
                      Or(a.error_channel_id, loggers["parent"].error_channel_id),
                      Or(a.icon_emoji, loggers["parent"].icon_emoji),
                      env)]
    /\ made' = [made EXCEPT !["clone"] = [a EXCEPT !.env = env]]
    /\ last_messages' = [last_messages EXCEPT !["clone"] = last_messages["parent"]]
    /\ UNCHANGED <<logfile, deliveries, now, nticks, concurrent, tpc,
                   error_text, error_hash, two_minutes_ago, filtered, calls, snap>>
    /\ UNCHANGED <<env, ctor, scenario, args>>
    /\ UNCHANGED retryVars

\* SlackLogger.clone: a new object from the attributes of this one, each
\* replaced by the argument given for it when that is truthy.
Clone(a) ==
    /\ scenario = "cloning"
    /\ loggers["parent"] # NoLogger
    /\ loggers["clone"] = NoLogger
    /\ Idle
    /\ LET self == loggers["parent"]
       IN  /\ ~NoChannel(Or(a.default_channel_id, self.default_channel_id),
                         Or(a.info_channel_id, self.info_channel_id),
                         Or(a.error_channel_id, self.error_channel_id))
           /\ loggers' = [loggers EXCEPT !["clone"] =
                   NewLogger(self.project_name,
                             Or(a.subprocess, self.subprocess),
                             Or(a.default_channel_id, self.default_channel_id),
                             Or(a.info_channel_id, self.info_channel_id),
                             Or(a.error_channel_id, self.error_channel_id),
                             Or(a.icon_emoji, self.icon_emoji),
                             env)]
    /\ made' = [made EXCEPT !["clone"] = [a EXCEPT !.env = env]]
    /\ last_messages' = [last_messages EXCEPT !["clone"] = <<>>]
    /\ UNCHANGED <<logfile, deliveries, now, nticks, concurrent, tpc,
                   error_text, error_hash, two_minutes_ago, filtered, calls, snap>>
    /\ UNCHANGED <<env, ctor, scenario, args>>
    /\ UNCHANGED retryVars

\* The process's environment variable SLACK_LOGGER_EMOJI is set or unset.
SetEnv(v) ==
    /\ scenario \in {"routing", "cloning"}
    /\ Idle
    /\ v # env
    /\ env' = v
    /\ UNCHANGED <<last_messages, logfile, deliveries, now, nticks, concurrent,
                   tpc, error_text, error_hash, two_minutes_ago, filtered,
                   calls, snap>>
    /\ UNCHANGED <<loggers, made, ctor, scenario, args>>
    /\ UNCHANGED retryVars

\* Faulty variant: a call whose level and text this logger has already posted
\* returns without posting.
LevelCall_Deduplicated(t, l, level, message, o, posted) ==
    /\ scenario \in {"routing", "levels"}
    /\ CanCall(t)
    /\ loggers[l] # NoLogger
    /\ level \in Levels \ {"ERROR"}
    /\ LET seen == \E i \in 1..Len(calls) :
                       /\ calls[i].logger = l
                       /\ calls[i].level = level
                       /\ calls[i].text = <<message>>
                       /\ calls[i].outcome = "sent"
       IN  /\ deliveries' =
                 IF posted /\ ~seen
                 THEN Append(deliveries,
                        [logger |-> l, level |-> level,
                         given |-> [self |-> l, level |-> level,
                                    message |-> message, exc |-> None,
                                    handled |-> None,
                                    channel_id |-> o.channel_id,
                                    subprocess |-> o.subprocess,
                                    color |-> o.color],
                         post |-> Payload(loggers[l], level, message, NoText, o)])
                 ELSE deliveries
           /\ calls' = Append(calls,
                 [thread |-> t, logger |-> l, level |-> level,
                  exc |-> None, header |-> message,
                  text |-> <<message>>, at |-> now, recorded |-> -1,
                  outcome |-> IF seen THEN "suppressed"
                              ELSE IF posted THEN "sent" ELSE "post_failed",
                  posted |-> IF posted /\ ~seen THEN now ELSE -1])
    /\ UNCHANGED <<last_messages, logfile, now, nticks, concurrent, tpc,
                   error_text, error_hash, two_minutes_ago, filtered, snap>>
    /\ UNCHANGED cfgVars
    /\ UNCHANGED retryVars

\* SlackLogger.info, .warning and .debug: one call of _post_to_slack, which
\* chat_postMessage ends by returning or by raising.
LevelCall(t, l, level, message, o, posted) ==
    /\ scenario \in {"routing", "levels"}
    /\ CanCall(t)
    /\ loggers[l] # NoLogger
    /\ level \in Levels \ {"ERROR"}
    /\ deliveries' =
          IF posted
          THEN Append(deliveries,
                 [logger |-> l, level |-> level,
                  given |-> [self |-> l, level |-> level, message |-> message,
                             exc |-> None, channel_id |-> o.channel_id,
                             subprocess |-> o.subprocess, color |-> o.color],
                  post |-> Payload(loggers[l], level, message, NoText, o)])
          ELSE deliveries
    /\ calls' = Append(calls, [thread |-> t, logger |-> l, level |-> level,
                               exc |-> None, header |-> message,
                               text |-> <<message>>, at |-> now, recorded |-> -1,
                               outcome |-> IF posted THEN "sent" ELSE "post_failed",
                               posted |-> IF posted THEN now ELSE -1])
    /\ UNCHANGED <<last_messages, logfile, now, nticks, concurrent, tpc,
                   error_text, error_hash, two_minutes_ago, filtered, snap>>
    /\ UNCHANGED cfgVars
    /\ UNCHANGED retryVars

Messages == {"msg"}

NextConstruct ==
    \/ \E subprocess \in SubprocessArgs, default \in ChannelArgs("D"),
          info \in ChannelArgs("I"), error \in ChannelArgs("E"),
          icon \in IconArgs :
            Construct(subprocess, default, info, error, icon)
    \/ \E v \in EnvValues : SetEnv(v)

NextObjects == NextConstruct \/ \E a \in CloneArgs : Clone(a)

NextLevelCall ==
    \E l \in LoggerIds, level \in Levels, message \in Messages,
       o \in CallerOverrides, posted \in BOOLEAN :
         LevelCall(1, l, level, message, o, posted)

NextRouting == NextConstruct \/ NextLevelCall \/ ErrorStep(1)

NextCloning == NextObjects \/ ErrorStep(1)

NextLevels == NextLevelCall \/ ErrorStep(1)

InitLogger == LoggerAtRest(FALSE) /\ scenario = "dedup" /\ RetryAtRest(0, 0, 1)

InitLoggerMT == LoggerAtRest(TRUE) /\ RetryAtRest(0, 0, 1)

InitLevels == LoggerAtRest(FALSE) /\ scenario = "levels" /\ RetryAtRest(0, 0, 1)

\* No object yet; the environment variable set or not.
NoObjects(sc) ==
    /\ scenario = sc
    /\ last_messages = [l \in LoggerIds |-> <<>>]
    /\ loggers = [l \in LoggerIds |-> NoLogger]
    /\ made = [l \in LoggerIds |-> NotMade]
    /\ env \in EnvValues
    /\ ctor = "none"
    /\ args = [t \in Threads |-> NoArgs]
    /\ logfile = NoFile
    /\ deliveries = <<>>
    /\ now = 0
    /\ nticks = 0
    /\ concurrent = FALSE
    /\ tpc = [t \in Threads |-> "idle"]
    /\ error_text = [t \in Threads |-> NoLocals]
    /\ error_hash = [t \in Threads |-> NoLocals]
    /\ two_minutes_ago = [t \in Threads |-> 0]
    /\ filtered = [t \in Threads |-> <<>>]
    /\ calls = <<>>
    /\ snap = [t \in Threads |-> NoSnapshot]

InitRouting == NoObjects("routing") /\ RetryAtRest(0, 0, 1)

InitCloning == NoObjects("cloning") /\ RetryAtRest(0, 0, 1)

\* ERROR calls made one after another, possibly by different threads.
SpecLogger == InitLogger /\ [][NextLogger]_vars

\* ERROR calls made by two threads with no synchronisation.
SpecLoggerMT == InitLoggerMT /\ [][NextLogger]_vars

\* A logger is constructed and calls of any level are made on it.
SpecRouting == InitRouting /\ [][NextRouting]_vars

\* A logger is constructed and cloned, and ERROR calls are made on the two
\* objects one after another.
SpecCloning == InitCloning /\ [][NextCloning]_vars

\* Calls of every level are made on one logger one after another.
SpecLevels == InitLevels /\ [][NextLevels]_vars

----------------------------------------------------------------------------
(***************************************************************************)
(* Claims about SlackLogger.error, checked under SpecLogger (calls one     *)
(* after another) and SpecLoggerMT (concurrent calls).                     *)
(***************************************************************************)

Ended(c) == c.outcome # "running"
Returned(c) == c.outcome \in {"sent", "suppressed"}

\* The ended calls before call j that had the same error text.
EarlierSame(j) == {i \in 1..(j - 1) : calls[i].text = calls[j].text}

\* C2 (as claimed): of two ERROR calls with the same text at times
\* t1 < t2 less than 2 minutes apart, the first delivered, the second makes
\* no delivery; and a call with that text made 2 minutes or more after the
\* earlier deliveries of it is not suppressed.
C2_WithinWindowSuppressed ==
    \A j \in 1..Len(calls) :
        Ended(calls[j]) =>
            /\ \A i \in EarlierSame(j) :
                  ( /\ calls[i].outcome = "sent"
                    /\ calls[i].at < calls[j].at
                    /\ calls[j].at - calls[i].at < Window )
                  => calls[j].outcome # "sent"
            /\ ( /\ \E i \in EarlierSame(j) : calls[i].outcome = "sent"
                 /\ \A i \in EarlierSame(j) :
                        /\ Returned(calls[i])
                        /\ calls[i].outcome = "sent"
                              => calls[j].at >= calls[i].posted + Window )
               => calls[j].outcome # "suppressed"

\* The second half of C2 alone: a call made 2 minutes or more after every
\* earlier delivery of the same text is not suppressed.
C2_AfterWindowDelivered ==
    \A j \in 1..Len(calls) :
        ( /\ Ended(calls[j])
          /\ \E i \in EarlierSame(j) : calls[i].outcome = "sent"
          /\ \A i \in EarlierSame(j) :
                /\ Returned(calls[i])
                /\ calls[i].outcome = "sent"
                      => calls[j].at >= calls[i].posted + Window )
        => calls[j].outcome # "suppressed"

\* C3 (as claimed): read-filter-append on the history is mutually
\* exclusive: when two calls, made within the window of each other by
\* threads that do not wait for each other, have both returned, then with
\* the same fingerprint exactly one was delivered, and with different
\* fingerprints the entry of each delivered call is in the history.
C3_HistoryMutualExclusion ==
    ( /\ Idle
      /\ Len(calls) = 2
      /\ \A i \in 1..2 : Returned(calls[i])
      /\ \A i \in 1..2 : now - calls[i].at <= Window - Resolution )
    => IF calls[1].text = calls[2].text
       THEN Len(deliveries) = 1
       ELSE \A i \in 1..2 :
               calls[i].outcome = "sent"
                  => InHistory(last_messages[calls[i].logger],
                               HashError(calls[i].text))

\* C10: a suppressed ERROR call is a silent no-op: when the call returns
\* from the duplicate check, the transport has been given nothing and the
\* log file has not been written since the call started, the history holds
\* no entry it did not hold then, and the call ends by returning, as a
\* delivered one does.
C10_SuppressedIsSilent ==
    [][ \A t \in Threads :
           (tpc[t] = "check" /\ tpc'[t] = "idle") =>
              /\ deliveries' = snap[t].deliveries
              /\ logfile' = snap[t].logfile
              /\ last_messages'[args[t].self] =
                    KeepRecent(snap[t].last_messages, two_minutes_ago[t])
              /\ \E i \in 1..Len(calls) :
                    /\ calls[i].thread = t
                    /\ calls[i].outcome = "running"
                    /\ Returned(calls'[i])
                    /\ calls'[i].outcome = "suppressed"
      ]_vars

C10_Witness ==
    /\ Len(calls) >= 2
    /\ calls[1].outcome = "sent"
    /\ calls[2].outcome = "suppressed"
    /\ Len(deliveries) = 1
    /\ logfile # NoFile

----------------------------------------------------------------------------
(***************************************************************************)
(* Claims about the calls of the other levels, the channel, the icon,      *)
(* construction and clone().                                               *)
(***************************************************************************)

\* The call that a step has just added to calls, if the step is the whole of
\* an info, warning or debug call.
LevelCallMade ==
    /\ Len(calls') = Len(calls) + 1
    /\ calls'[Len(calls')].level # "ERROR"

\* C11: an info, warning or debug call is never deduplicated and never
\* touches the error state.  Whatever the history holds and whatever calls
\* were made before, the call hands exactly one message to the transport
\* (which delivers it, or raises), with the call's level and text, and it
\* leaves the dedup history of every logger and the log file as they were.
C11_LevelCallsOnlyPost ==
    [][LevelCallMade =>
        LET c == calls'[Len(calls')]
        IN  /\ c.outcome \in {"sent", "post_failed"}
            /\ IF c.outcome = "sent"
               THEN /\ Len(deliveries') = Len(deliveries) + 1
                    /\ SubSeq(deliveries', 1, Len(deliveries)) = deliveries
                    /\ deliveries'[Len(deliveries')].level = c.level
                    /\ deliveries'[Len(deliveries')].logger = c.logger
                    /\ <<deliveries'[Len(deliveries')].given.message>> = c.text
               ELSE deliveries' = deliveries
            /\ last_messages' = last_messages
            /\ logfile' = logfile]_vars

\* A warning is delivered a second time, after a delivered ERROR that left an
\* entry in the history and a record in the log file.
C11_Witness ==
    /\ Len(calls) = 3
    /\ calls[1].level = "ERROR" /\ calls[1].outcome = "sent"
    /\ calls[2].level = "WARNING" /\ calls[2].outcome = "sent"
    /\ calls[3].level = "WARNING" /\ calls[3].outcome = "sent"
    /\ Len(deliveries) = 3
    /\ Len(last_messages["parent"]) = 1
    /\ logfile # NoFile

\* The destination the channel rule names for a call of this level with this
\* per-call channel on logger l.
RuledChannel(l, level, channel_id) ==
    IF Truthy(channel_id) THEN channel_id
    ELSE IF level = "ERROR"
    THEN (IF Truthy(loggers[l].error_channel_id)
          THEN loggers[l].error_channel_id
          ELSE loggers[l].default_channel_id)
    ELSE (IF Truthy(loggers[l].info_channel_id)
          THEN loggers[l].info_channel_id
          ELSE loggers[l].default_channel_id)

\* C12: the channel of every delivery.  A per-call channel, when present, is
\* the destination whatever the level.  Without one, an ERROR delivery goes
\* to the logger's error channel if set, else to its default channel, and an
\* INFO, WARNING or DEBUG delivery goes to the logger's info channel if set,
\* else to its default channel; a WARNING or DEBUG delivery of a logger that
\* was given an info or a default channel never goes to its error channel.
\* This holds of every delivery made and of every call that could be made
\* on the loggers that exist.
C12_ChannelResolution ==
    /\ \A i \in 1..Len(deliveries) :
          LET d == deliveries[i]
          IN  /\ d.post.channel = RuledChannel(d.logger, d.level, d.given.channel_id)
              /\ (/\ d.level \in {"WARNING", "DEBUG"}
                  /\ ~Truthy(d.given.channel_id)
                  /\ Truthy(made[d.logger].info_channel_id)
                        \/ Truthy(made[d.logger].default_channel_id))
                    => d.post.channel # loggers[d.logger].error_channel_id
    /\ \A l \in LoggerIds, level \in Levels, channel_id \in {None, "", "CX"} :
          loggers[l] # NoLogger =>
            ResolveChannel(loggers[l], channel_id, level = "ERROR")
              = RuledChannel(l, level, channel_id)

\* A DEBUG message without a per-call channel, on a logger constructed with a
\* default and an error channel and no info channel, went to the default
\* channel.
C12_Witness ==
    \E i \in 1..Len(deliveries) :
        /\ deliveries[i].level = "DEBUG"
        /\ deliveries[i].logger = "parent"
        /\ deliveries[i].given.channel_id = None
        /\ made["parent"].default_channel_id = "D"
        /\ made["parent"].info_channel_id = None
        /\ made["parent"].error_channel_id = "E"
        /\ deliveries[i].post.channel = "D"

\* The texts an ERROR call posts: none, or a formatted exception.
PostedTexts == {NoText} \cup {FormatError(exc, NoData) : exc \in Excs}

\* clone() was called with no argument / with subprocess only.
ClonedPlain ==
    made["clone"] = [MadeBy("clone", None, None, None, None, None, None)
                        EXCEPT !.env = made["clone"].env]

ClonedWithSubprocess ==
    /\ made["clone"].op = "clone"
    /\ Truthy(made["clone"].subprocess)
    /\ made["clone"] = [MadeBy("clone", made["clone"].subprocess, None, None,
                               None, None, None)
                          EXCEPT !.env = made["clone"].env]

\* A call that got past the duplicate check and recorded its fingerprint.
Recorded(c) == c.outcome \in {"sent", "write_failed", "post_failed"}

\* C13: clone() with no arguments gives a logger that posts, for every call
\* (level, message, error text, per-call channel, subprocess and colour),
\* exactly what the parent posts: same channel, icon, sender name, subprocess
\* tag and colour.  clone(subprocess=x) gives a logger that differs from the
\* parent in the subprocess tag only.  The clone's dedup history is its own:
\* it holds only fingerprints of ERROR calls made on the clone, so it starts
\* empty, and an ERROR call is suppressed only by an earlier recorded call
\* with the same text on the same object, never by one on the other object.
C13_CloneSameButOwnHistory ==
    /\ ClonedPlain =>
          \A level \in Levels, text \in PostedTexts, o \in Overrides :
              Payload(loggers["clone"], level, "msg", text, o)
                = Payload(loggers["parent"], level, "msg", text, o)
    /\ ClonedWithSubprocess =>
          loggers["clone"] =
            [loggers["parent"] EXCEPT !.subprocess = made["clone"].subprocess]
    /\ \A l \in LoggerIds :
          \A k \in 1..Len(last_messages[l]) :
              \E i \in 1..Len(calls) :
                  /\ calls[i].logger = l
                  /\ calls[i].level = "ERROR"
                  /\ calls[i].outcome # "suppressed"
                  /\ last_messages[l][k].message_hash = HashError(calls[i].text)
    /\ \A j \in 1..Len(calls) :
          calls[j].outcome = "suppressed" =>
              \E i \in 1..(j - 1) :
                  /\ calls[i].logger = calls[j].logger
                  /\ calls[i].text = calls[j].text
                  /\ Recorded(calls[i])

\* The same error was delivered through the parent and then through a clone
\* made with no arguments; each object has recorded it once.
C13_Witness ==
    /\ ClonedPlain
    /\ Len(calls) = 2
    /\ calls[1].logger = "parent" /\ calls[1].outcome = "sent"
    /\ calls[2].logger = "clone" /\ calls[2].outcome = "sent"
    /\ calls[1].text = calls[2].text
    /\ Len(deliveries) = 2
    /\ Len(last_messages["parent"]) = 1
    /\ Len(last_messages["clone"]) = 1

\* A channel identifier that is present: given and not empty.
Present(channel_id) == channel_id # None /\ channel_id # ""

\* C14: SlackLogger(...) with none of default_channel_id, info_channel_id
\* and error_channel_id present fails at once with ValueError and makes no
\* logger (so nothing is ever cloned, called or delivered); with at least
\* one of the three present it succeeds and the logger exists.
C14_NeedsAChannel ==
    ctor # "none" =>
        LET a == made["parent"]
            some == \/ Present(a.default_channel_id)
                    \/ Present(a.info_channel_id)
                    \/ Present(a.error_channel_id)
        IN  /\ some <=> ctor = "ok"
            /\ ~some <=> ctor = "ValueError"
            /\ ctor = "ok" => loggers["parent"] # NoLogger
            /\ ctor = "ValueError" =>
                  /\ \A l \in LoggerIds : loggers[l] = NoLogger
                  /\ calls = <<>>
                  /\ deliveries = <<>>

\* Construction was attempted with an empty default channel and no other
\* channel, and failed.
C14_Witness ==
    /\ ctor = "ValueError"
    /\ made["parent"].default_channel_id = ""
    /\ made["parent"].info_channel_id = None
    /\ made["parent"].error_channel_id = None
    /\ loggers["parent"] = NoLogger

\* The icon the icon rule names for a logger configured with this icon while
\* the environment override had this value.
RuledIcon(configured, override) ==
    IF configured \in {SLACK_LOGGER_EMOJI, "SLACK_LOGGER_EMOJI"}
    THEN (IF Present(override) THEN override ELSE ":robot_face:")
    ELSE IF Present(configured)
    THEN (IF configured \in BotIconEmoji THEN EnumValue(configured) ELSE configured)
    ELSE (IF Present(override) THEN override ELSE ":technologist:")

\* C18: the icon is resolved once, at construction, and every delivery of
\* the logger uses that value whatever the environment override is at the
\* time of the call.  The value is the configured literal if one was given;
\* if the configured icon is the use-environment marker, the environment's
\* value as it was at construction if set, else ':robot_face:'; if no icon
\* was configured, the environment's value at construction if set, else
\* ':technologist:'.
C18_IconResolvedOnce ==
    /\ loggers["parent"] # NoLogger =>
          loggers["parent"].icon_emoji
            = RuledIcon(made["parent"].icon_emoji, made["parent"].env)
    /\ \A i \in 1..Len(deliveries) :
          /\ deliveries[i].post.icon_emoji = loggers[deliveries[i].logger].icon_emoji
          /\ deliveries[i].logger = "parent" =>
                deliveries[i].post.icon_emoji
                  = RuledIcon(made["parent"].icon_emoji, made["parent"].env)

\* A logger configured with the marker while the environment override was
\* set has delivered with that value after the override was unset.
C18_Witness ==
    \E i \in 1..Len(deliveries) :
        /\ deliveries[i].logger = "parent"
        /\ made["parent"].icon_emoji = SLACK_LOGGER_EMOJI
        /\ made["parent"].env = ":env:"
        /\ env = None
        /\ deliveries[i].post.icon_emoji = ":env:"

----------------------------------------------------------------------------
(***************************************************************************)
(* Claims about the failure record, the history and failed deliveries.     *)
(***************************************************************************)

\* C15: a failure of the local failure-record write (making the logs
\* directory, opening or writing the file) during a non-suppressed ERROR call
\* does not prevent delivery: every ERROR call that ended and was not
\* suppressed has handed its message to the transport.
C15_WriteFailureStillPosts ==
    \A i \in 1..Len(calls) :
        (calls[i].level = "ERROR" /\ Ended(calls[i])
            /\ calls[i].outcome # "suppressed")
          => calls[i].outcome \in {"sent", "post_failed"}

\* The ERROR calls on logger l, up to call j, that recorded their fingerprint
\* less than the window before call j read the clock.
RecentRecorded(l, j) ==
    {i \in 1..j : /\ calls[i].logger = l
                  /\ Recorded(calls[i])
                  /\ calls[j].at - calls[i].recorded < Window}

\* C16: after every ERROR call, suppressed or not, made at time `now` (the
\* clock the call read), the logger's history holds no entry whose timestamp
\* is 2 minutes or more older than `now`; so the history is no longer than
\* the number of non-suppressed ERROR calls on the logger that recorded their
\* entry in the 2 minutes before `now`.
C16_HistoryStaysRecent ==
    (Idle /\ calls # <<>> /\ Ended(calls[Len(calls)])) =>
        LET j == Len(calls)
            h == last_messages[calls[j].logger]
        IN  /\ \A k \in 1..Len(h) : calls[j].at - h[k].date < Window
            /\ Len(h) <= Cardinality(RecentRecorded(calls[j].logger, j))

\* A call has ended whose purge removed the entry of an earlier call: two
\* calls recorded an entry, the first 2 minutes or more before the second,
\* and the history holds one entry.
C16_Witness ==
    /\ Idle
    /\ Len(calls) = 2
    /\ Recorded(calls[1]) /\ Recorded(calls[2])
    /\ calls[2].at - calls[1].recorded >= Window
    /\ Len(last_messages["parent"]) = 1

\* The call that thread t is running.
RunningCall(t) ==
    CHOOSE i \in 1..Len(calls) : calls[i].thread = t /\ calls[i].outcome = "running"

\* The step appends to the history of logger l exactly one entry, for the
\* non-suppressed ERROR call of thread t, which has appended none before: the
\* current time (to the second) and the fingerprint of the call's whole
\* error text.
AppendsOwnEntry(t, l) ==
    /\ tpc[t] = "append"
    /\ args[t].self = l /\ args[t].level = "ERROR"
    /\ calls[RunningCall(t)].recorded = -1
    /\ Len(last_messages'[l]) = Len(last_messages[l]) + 1
    /\ SubSeq(last_messages'[l], 1, Len(last_messages[l])) = last_messages[l]
    /\ LET e == last_messages'[l][Len(last_messages'[l])]
       IN  /\ e.date <= now /\ now - e.date < Resolution
           /\ e.message_hash = HashError(calls[RunningCall(t)].text)

\* The step removes from the history of logger l, for the ERROR call of
\* thread t, the entries 2 minutes or more older than the time the call
\* read, and nothing else.
PurgesOld(t, l) ==
    /\ tpc[t] = "assign"
    /\ args[t].self = l /\ args[t].level = "ERROR"
    /\ last_messages'[l] =
          SelectSeq(last_messages[l],
                    LAMBDA e : calls[RunningCall(t)].at - e.date < Window)

\* C17: the history changes in two ways only.  A non-suppressed ERROR call
\* appends exactly one entry, {current time, fingerprint of the whole error
\* text, not of the text cut for posting}, and a suppressed one appends none;
\* an ERROR call removes the entries older than the window.  Entries already
\* there are never modified, and no other step changes a history.
C17_HistoryChangesTwoWays ==
    [][/\ \A l \in LoggerIds :
            last_messages'[l] # last_messages[l] =>
                \E t \in Threads : AppendsOwnEntry(t, l) \/ PurgesOld(t, l)
       /\ \A i \in 1..Len(calls') :
            (calls'[i].level = "ERROR" /\ Ended(calls'[i])) =>
                (calls'[i].recorded >= 0 <=> calls'[i].outcome # "suppressed")
      ]_vars

\* A second ERROR call, with a text longer than 8000 characters, has purged
\* the first call's entry and appended its own.
C17_Witness ==
    /\ Len(calls) = 2
    /\ Recorded(calls[1])
    /\ calls[2].outcome = "running"
    /\ calls[2].recorded >= 0
    /\ calls[2].at - calls[1].recorded >= Window
    /\ TextLength(calls[2].text) > MaxSlackText
    /\ Len(last_messages["parent"]) = 1
    /\ last_messages["parent"][1].message_hash = HashError(calls[2].text)

\* The ERROR calls that wrote the log file, and those whose write failed.
Wrote(c) == c.level = "ERROR" /\ c.outcome \in {"sent", "post_failed"}
WriteFailed(c) == c.level = "ERROR" /\ c.outcome = "write_failed"

\* C19: after any sequence of ERROR calls the log file holds exactly one
\* record, that of the most recent non-suppressed ERROR call: its header
\* message and the full trace of the exception passed to that call, whether
\* or not the call was made while an exception was being handled.  (Stated
\* for runs in which no write of the file failed.)
C19_FileHoldsLastError ==
    (Idle /\ \A i \in 1..Len(calls) : ~WriteFailed(calls[i])) =>
        LET writers == {i \in 1..Len(calls) : Wrote(calls[i])}
        IN  IF writers = {} THEN logfile = NoFile
            ELSE LET j == CHOOSE i \in writers : \A k \in writers : k <= i
                 IN  /\ logfile.message = calls[j].header
                     /\ logfile.trace = FormatError(calls[j].exc, NoData)

\* An ERROR call that was not suppressed and whose notification was not
\* delivered: the file write or the post raised.
DeliveryFailed(c) ==
    c.level = "ERROR" /\ c.outcome \in {"write_failed", "post_failed"}

\* C20: a non-suppressed ERROR call records its fingerprint before the file
\* write and the post, and the entry stays when either raises; so after a
\* call whose delivery failed, an identical error raised on the same logger
\* within the next 2 minutes (counted from the moment the fingerprint was
\* recorded) is suppressed: it records nothing and, when it has ended, its
\* outcome is the suppression.
C20_FailedDeliverySuppresses ==
    \A i, j \in 1..Len(calls) :
        ( /\ i < j
          /\ DeliveryFailed(calls[i])
          /\ calls[j].level = "ERROR"
          /\ calls[j].logger = calls[i].logger
          /\ calls[j].text = calls[i].text
          /\ calls[j].at - calls[i].recorded < Window )
        => /\ calls[j].recorded = -1
           /\ Ended(calls[j]) => calls[j].outcome = "suppressed"

\* The first half of C20 alone: the fingerprint is recorded before the file
\* write and the post and stays when either raises.  A call whose delivery
\* failed has recorded its entry, nothing was delivered for it, and until the
\* next call starts the history of its logger holds its fingerprint.
C20_EntryKeptAfterFailure ==
    /\ \A t \in Threads :
          tpc[t] \in {"write", "post"} =>
              /\ calls[RunningCall(t)].recorded >= 0
              /\ InHistory(last_messages[args[t].self], error_hash[t])
    /\ (Idle /\ calls # <<>> /\ DeliveryFailed(calls[Len(calls)])) =>
          /\ calls[Len(calls)].recorded >= 0
          /\ calls[Len(calls)].posted = -1
          /\ InHistory(last_messages[calls[Len(calls)].logger],
                       HashError(calls[Len(calls)].text))

----------------------------------------------------------------------------
(***************************************************************************)
(* Claims that follow from the code without being written in the           *)
(* documentation: the window is not extended by repeats, and every         *)
(* delivery has a destination.                                             *)
(***************************************************************************)

\* The ERROR calls before call j on the same logger with the same text.
Repeats(j) ==
    {i \in 1..(j - 1) : /\ calls[i].level = "ERROR"
                        /\ calls[i].logger = calls[j].logger
                        /\ calls[i].text = calls[j].text}

\* Call i is the previous delivery of call j's error: the last of the
\* earlier calls with that text that was delivered, every call with that
\* text made since having been suppressed.
PreviousDelivery(i, j) ==
    /\ i \in Repeats(j)
    /\ calls[i].outcome = "sent"
    /\ \A k \in Repeats(j) : k > i => calls[k].outcome = "suppressed"

\* C21: suppression does not extend the window.  Every entry of a history
\* carries the time (cut to the second) at which a non-suppressed call
\* recorded it, whatever suppressed calls matched it since; so when the same
\* error is raised again and again, the first call made 2 minutes or more
\* after the previous delivery is not suppressed: it records its own entry
\* and, unless the file write or the transport raises, it is delivered.
C21_SuppressionKeepsWindow ==
    /\ \A l \in LoggerIds : \A k \in 1..Len(last_messages[l]) :
          \E i \in 1..Len(calls) :
              /\ calls[i].logger = l
              /\ calls[i].recorded >= 0
              /\ calls[i].outcome # "suppressed"
              /\ last_messages[l][k].message_hash = HashError(calls[i].text)
              /\ last_messages[l][k].date = TruncateMicroseconds(calls[i].recorded)
    /\ \A j \in 1..Len(calls) :
          ( /\ calls[j].level = "ERROR"
            /\ Ended(calls[j])
            /\ \E i \in 1..(j - 1) :
                  /\ PreviousDelivery(i, j)
                  /\ calls[j].at >= calls[i].posted + Window )
          => /\ calls[j].outcome # "suppressed"
             /\ calls[j].recorded >= 0
             /\ ~DeliveryFailed(calls[j]) =>
                    /\ calls[j].outcome = "sent"
                    /\ calls[j].posted >= calls[j].at

\* The same error raised three times: delivered, suppressed less than 2
\* minutes later, and delivered again by the call made 2 minutes after the
\* delivery, which is less than 2 minutes after the suppressed one.
C21_Witness ==
    /\ Idle
    /\ Len(calls) = 3
    /\ calls[1].outcome = "sent"
    /\ calls[2].outcome = "suppressed"
    /\ calls[3].outcome = "sent"
    /\ calls[2].text = calls[1].text /\ calls[3].text = calls[1].text
    /\ calls[2].at > calls[1].posted
    /\ calls[3].at >= calls[1].posted + Window
    /\ calls[3].at - calls[2].at < Window
    /\ Len(deliveries) = 2

\* The first present one of the channels SlackLogger(...) was given.
FirstChannelGiven(m) ==
    IF Present(m.default_channel_id) THEN m.default_channel_id
    ELSE IF Present(m.info_channel_id) THEN m.info_channel_id
    ELSE m.error_channel_id

\* C22: every message has a destination.  Of every logger that was
\* constructed, and of every clone of it, the default channel is a present
\* channel identifier: the first present one of the default, info and error
\* channels given to SlackLogger(...), and for a clone the one given to
\* clone(...) or else the parent's.  So for every level and every per-call
\* channel, present or not, the channel resolved is present, as is the
\* channel of every delivery made; a logger given an error channel only
\* sends its INFO messages to that channel.
C22_AlwaysADestination ==
    /\ \A l \in LoggerIds :
          loggers[l] # NoLogger =>
            /\ Present(loggers[l].default_channel_id)
            /\ \A level \in Levels, channel_id \in {None, "", "CX"} :
                  Present(ResolveChannel(loggers[l], channel_id, level = "ERROR"))
    /\ loggers["parent"] # NoLogger =>
          /\ loggers["parent"].default_channel_id = FirstChannelGiven(made["parent"])
          /\ (~Present(made["parent"].default_channel_id)
                 /\ ~Present(made["parent"].info_channel_id))
              => ResolveChannel(loggers["parent"], None, FALSE)
                    = made["parent"].error_channel_id
    /\ loggers["clone"] # NoLogger =>
          loggers["clone"].default_channel_id =
              Or(made["clone"].default_channel_id,
                 loggers["parent"].default_channel_id)
    /\ \A i \in 1..Len(deliveries) : Present(deliveries[i].post.channel)

\* A logger was constructed with an error channel only and cloned with no
\* arguments; an ERROR message of the clone went to that channel, and so
\* would an INFO message of either object.
C22_Witness ==
    /\ ~Present(made["parent"].default_channel_id)
    /\ ~Present(made["parent"].info_channel_id)
    /\ made["parent"].error_channel_id = "E"
    /\ loggers["clone"] # NoLogger
    /\ ~Present(made["clone"].default_channel_id)
    /\ ~Present(made["clone"].info_channel_id)
    /\ ResolveChannel(loggers["parent"], None, FALSE) = "E"
    /\ ResolveChannel(loggers["clone"], None, FALSE) = "E"
    /\ \E i \in 1..Len(deliveries) :
          /\ deliveries[i].logger = "clone"
          /\ deliveries[i].given.channel_id = None
          /\ deliveries[i].post.channel = "E"

====
